---- MODULE Spec2Model ----
(***************************************************************************)
(* Model of health_data_importer.py: a one-directional synchronizer that   *)
(* copies the rows of selected SQLite tables into PostgreSQL tables.       *)
(*                                                                         *)
(* Spec     : main() run repeatedly against an evolving source database.   *)
(* FairSpec : one run of main, with weak fairness of the program's steps.  *)
(* SpecMap  : get_create_table_query applied to bounded column lists.      *)
(* SpecKey  : the dedup column selection applied to bounded name lists.    *)
(***************************************************************************)
EXTENDS Integers, Sequences, FiniteSets, TLC

VARIABLES
    src,        \* SQLite: table name -> sequence of rows
    pg_tables,  \* PostgreSQL: set of tables that exist (committed DDL)
    dest,       \* PostgreSQL: table name -> sequence of committed rows
    conn,       \* pg_conn: [txn, pending] transaction state of the connection
    pc,         \* position of main / sync_table
    i,          \* index of main's loop over all_tables
    frame,      \* locals of the running sync_table call
    outcome,    \* table name -> what the log of this run says about the table
    calls,      \* tables sync_table was called for in this run, in order
    runs,       \* runs of main so far
    prev,       \* the previous run: the source it read and its outcome
    faults,     \* statements a store has rejected so far
    columns,    \* input of the pure functions: PRAGMA table_info rows
    result      \* output of the pure functions

vars == <<src, pg_tables, dest, conn, pc, i, frame, outcome, calls, runs, prev,
          faults, columns, result>>

----------------------------------------------------------------------------
(* Bounds of the model.                                                    *)

MaxSrcRows == 2     \* rows the source database holds, all tables together
MaxRuns == 2        \* runs of main
MaxFaults == 1      \* statements a store rejects for a reason of its own
MaxMapCols == 2     \* columns of a table handed to get_create_table_query
MaxKeyCols == 3     \* columns of a table handed to the dedup selection

----------------------------------------------------------------------------
(* Strings the code inspects character by character are sequences of       *)
(* one-character strings.                                                  *)

None == <<"<None>">>

Lower == <<"a","b","c","e","g","h","i","l","m","n","o","r","t","u","v","x">>
Upper == <<"A","B","C","E","G","H","I","L","M","N","O","R","T","U","V","X">>

\* str.upper(), one character
UpperChar(c) ==
    IF \E k \in 1..Len(Lower) : Lower[k] = c
    THEN Upper[CHOOSE k \in 1..Len(Lower) : Lower[k] = c]
    ELSE c

\* str.upper()
StrUpper(s) == [k \in 1..Len(s) |-> UpperChar(s[k])]

\* str.startswith(prefix)
StartsWith(s, prefix) ==
    /\ Len(s) >= Len(prefix)
    /\ \A k \in 1..Len(prefix) : s[k] = prefix[k]

\* (col[2] or "")
OrEmpty(t) == IF t = None \/ t = <<>> THEN <<>> ELSE t

\* MapType comparing the whole type where the code compares a prefix
MapTypeExact(declared) ==
    LET col_type == StrUpper(OrEmpty(declared)) IN
    IF col_type = <<>> THEN "TEXT"
    ELSE IF col_type = <<"I","N","T">> THEN "BIGINT"
    ELSE IF col_type = <<"R","E","A","L">> THEN "DOUBLE PRECISION"
    ELSE IF col_type = <<"B","L","O","B">> THEN "BYTEA"
    ELSE "TEXT"

\* lines 90-101: the destination type of one declared type
MapType(declared) ==
    LET col_type == StrUpper(OrEmpty(declared)) IN
    IF col_type = <<>> THEN "TEXT"
    ELSE IF StartsWith(col_type, <<"I","N","T">>) THEN "BIGINT"
    ELSE IF StartsWith(col_type, <<"R","E","A","L">>) THEN "DOUBLE PRECISION"
    ELSE IF StartsWith(col_type, <<"B","L","O","B">>) THEN "BYTEA"
    ELSE "TEXT"

\* lines 83-107: col_defs (name, mapped type) and column_names of a table
get_create_table_query(cols) ==
    [col_defs |-> [k \in 1..Len(cols) |->
                     [name |-> cols[k].name, mapped |-> MapType(cols[k].type)]],
     column_names |-> [k \in 1..Len(cols) |-> cols[k].name]]

\* lines 132: the priority list
DedupCandidates == <<"row_id", "local_date_time", "time">>

InSeq(x, s) == \E k \in 1..Len(s) : s[k] = x

\* lines 131-135: the for loop with break, from candidate k on
RECURSIVE DedupFrom(_, _)
DedupFrom(k, column_names) ==
    IF k > Len(DedupCandidates) THEN "None"
    ELSE IF InSeq(DedupCandidates[k], column_names) THEN DedupCandidates[k]
    ELSE DedupFrom(k + 1, column_names)

\* the selection walking the table's columns instead of the priority list
SelectFirstCandidateColumn(column_names) ==
    IF \E k \in 1..Len(column_names) : InSeq(column_names[k], DedupCandidates)
    THEN column_names[CHOOSE k \in 1..Len(column_names) :
             /\ InSeq(column_names[k], DedupCandidates)
             /\ \A j \in 1..(k-1) : ~InSeq(column_names[j], DedupCandidates)]
    ELSE "None"

\* the selection falling back on the first column when no candidate is one
SelectOrFirstColumn(column_names) ==
    IF DedupFrom(1, column_names) = "None" /\ column_names # <<>>
    THEN column_names[1]
    ELSE DedupFrom(1, column_names)

SelectDedupCol(column_names) == DedupFrom(1, column_names)

\* list.index(x), 1-based
IndexOf(x, s) == CHOOSE k \in 1..Len(s) : s[k] = x /\ \A j \in 1..(k-1) : s[j] # x

----------------------------------------------------------------------------
(* Values.  SQLite is dynamically typed: a value carries its own storage   *)
(* class whatever the declared type of its column.  psycopg2 hands a       *)
(* Python int, float or str to PostgreSQL, which casts it to the type of   *)
(* the destination column, and reads it back as the Python type of that    *)
(* column.                                                                 *)

IntV(v) == [k |-> "int", v |-> v]
FloatV(v) == [k |-> "float", v |-> v]
TextV(v) == [k |-> "text", v |-> v]
BytesV(v) == [k |-> "bytes", v |-> v]
CastError == [k |-> "error", v |-> ""]

Numerals == {"1", "2"}
NUL == "NUL"      \* a str holding a 0x00 character

\* str(float): 1.0 prints as "1.0"
FloatRepr(v) == IF v = "1" THEN "1.0" ELSE IF v = "2" THEN "2.0" ELSE v

\* line 178: the value PostgreSQL stores for a parameter in a column of
\* type mapped, or CastError when it rejects the statement
CastValue(val, mapped) ==
    CASE mapped = "TEXT" ->
            IF val.k = "int" THEN TextV(val.v)
            ELSE IF val.k = "float" THEN TextV(FloatRepr(val.v))
            ELSE TextV(val.v)
      [] mapped = "BIGINT" ->
            IF val.k \in {"int", "float"} THEN IntV(val.v)
            ELSE IF val.v \in Numerals THEN IntV(val.v)
            ELSE CastError
      [] mapped = "DOUBLE PRECISION" ->
            IF val.k \in {"int", "float"} THEN FloatV(val.v)
            ELSE IF val.v \in Numerals THEN FloatV(val.v)
            ELSE CastError
      [] mapped = "BYTEA" ->
            IF val.k = "text" THEN BytesV(val.v) ELSE CastError

\* line 155: Python's == and hash, so that 1 == 1.0 while 1 != "1"
PyKey(val) == IF val.k = "float" THEN IntV(val.v) ELSE val

----------------------------------------------------------------------------
(* The source database of the model.                                       *)

INTEGER == <<"I","N","T","E","G","E","R">>
REAL == <<"R","E","A","L">>
TEXT == <<"T","E","X","T">>
NUMERIC == <<"N","U","M","E","R","I","C">>

Col(name, type) == [name |-> name, type |-> type]

\* line 220-221: the tables of sqlite_master, in catalog order
all_tables == <<"steps_record_table", "android_metadata",
                "weight_record_table", "sleep_session_record_table">>

\* lines 23-30, 78: TABLES_TO_IMPORT is not set
tables_to_import == {"steps_record_table", "body_fat_record_table",
                     "weight_record_table", "speed_record_table",
                     "sleep_session_record_table", "distance_record_table"}

TableNames == {all_tables[k] : k \in 1..Len(all_tables)}

\* line 84-85: PRAGMA table_info of each table
Schema(t) ==
    CASE t = "steps_record_table" ->
            <<Col("row_id", INTEGER), Col("count", REAL)>>
      [] t = "weight_record_table" ->
            <<Col("weight", REAL), Col("time", NUMERIC)>>
      [] t = "sleep_session_record_table" ->
            <<Col("title", TEXT), Col("stage", INTEGER)>>
      [] t = "android_metadata" ->
            <<Col("locale", TEXT)>>

\* line 125-126: the rows a SELECT * of the table may return
RowPool(t) ==
    CASE t = "steps_record_table" ->
            { <<IntV("1"), FloatV("1")>>, <<IntV("2"), FloatV("2")>>,
              <<IntV("2")>> }
      [] t = "weight_record_table" ->
            { <<FloatV("1"), IntV("1")>>, <<FloatV("1")>> }
      [] t = "sleep_session_record_table" ->
            { <<TextV("x"), IntV("1"), IntV("1")>>, <<TextV("x"), TextV("x")>>,
              <<TextV(NUL), IntV("1")>>, <<TextV("x")>> }
      [] t = "android_metadata" -> {}

RECURSIVE SumLen(_, _)
SumLen(f, S) ==
    IF S = {} THEN 0
    ELSE LET t == CHOOSE x \in S : TRUE IN Len(f[t]) + SumLen(f, S \ {t})

----------------------------------------------------------------------------
(* The destination connection: psycopg2 without autocommit.  The first     *)
(* statement opens a transaction; a statement the server rejects leaves    *)
(* the transaction aborted, and every later statement is rejected with     *)
(* InFailedSqlTransaction until a rollback.                                *)

NoConn == [txn |-> "idle", pending |-> <<>>]

\* line 118: pg_cursor.execute(create_query); reject is a server-side error
\* of the statement itself
ExecuteCreate(c, t, reject) ==
    IF c.txn = "aborted" THEN [conn |-> c, err |-> "InFailedSqlTransaction"]
    ELSE IF reject THEN [conn |-> [c EXCEPT !.txn = "aborted"], err |-> "ProgrammingError"]
    ELSE [conn |-> [txn |-> "open",
                    pending |-> Append(c.pending, [op |-> "create", table |-> t, row |-> <<>>])],
          err |-> "none"]

\* lines 140-144: SELECT dedup_col FROM table, as a set of Python values
ExecuteSelectKeys(c, d, t, idx, reject) ==
    IF c.txn = "aborted"
    THEN [conn |-> c, err |-> "InFailedSqlTransaction", keys |-> {}]
    ELSE IF reject
    THEN [conn |-> [c EXCEPT !.txn = "aborted"], err |-> "ProgrammingError", keys |-> {}]
    ELSE [conn |-> [c EXCEPT !.txn = "open"], err |-> "none",
          keys |-> {PyKey(d[t][k][idx]) : k \in 1..Len(d[t])}]

HasNul(row) == \E k \in 1..Len(row) : row[k] = TextV(NUL)

CastRow(row, col_defs) == [k \in 1..Len(row) |-> CastValue(row[k], col_defs[k].mapped)]

\* line 178: pg_cursor.executemany, one INSERT per row, from row k on
RECURSIVE ExecuteManyFrom(_, _, _, _, _)
ExecuteManyFrom(k, c, t, col_defs, rows) ==
    IF k > Len(rows) THEN [conn |-> c, err |-> "none"]
    ELSE IF HasNul(rows[k]) THEN [conn |-> c, err |-> "ValueError"]
    ELSE IF c.txn = "aborted" THEN [conn |-> c, err |-> "InFailedSqlTransaction"]
    ELSE LET stored == CastRow(rows[k], col_defs) IN
         IF InSeq(CastError, stored)
         THEN [conn |-> [c EXCEPT !.txn = "aborted"], err |-> "DataError"]
         ELSE ExecuteManyFrom(k + 1,
                  [txn |-> "open",
                   pending |-> Append(c.pending, [op |-> "insert", table |-> t, row |-> stored])],
                  t, col_defs, rows)

ExecuteMany(c, t, col_defs, rows) == ExecuteManyFrom(1, c, t, col_defs, rows)

\* the rows of table t among the statements of a transaction
RECURSIVE PendingRows(_, _)
PendingRows(pending, t) ==
    IF pending = <<>> THEN <<>>
    ELSE LET h == Head(pending) IN
         (IF h.op = "insert" /\ h.table = t THEN <<h.row>> ELSE <<>>)
             \o PendingRows(Tail(pending), t)

PendingTables(pending) ==
    {pending[k].table : k \in {j \in 1..Len(pending) : pending[j].op = "create"}}

\* a commit that stores a table's new rows in place of its old ones
CommitReplacing(c, tables, d) ==
    IF c.txn = "open"
    THEN [conn |-> NoConn,
          tables |-> tables \cup PendingTables(c.pending),
          dest |-> [t \in DOMAIN d |->
                      IF PendingRows(c.pending, t) = <<>> THEN d[t]
                      ELSE PendingRows(c.pending, t)]]
    ELSE [conn |-> NoConn, tables |-> tables, dest |-> d]

\* lines 119, 179: pg_conn.commit()
Commit(c, tables, d) ==
    IF c.txn = "open"
    THEN [conn |-> NoConn,
          tables |-> tables \cup PendingTables(c.pending),
          dest |-> [t \in DOMAIN d |-> d[t] \o PendingRows(c.pending, t)]]
    ELSE [conn |-> NoConn, tables |-> tables, dest |-> d]

\* the except branch without its rollback
RollbackMissing(c) == c

\* line 182: pg_conn.rollback()
Rollback(c) == NoConn

----------------------------------------------------------------------------
(* sync_table and main.                                                    *)

\* lines 115-117: the columns of each table of the catalog and the query
\* built from them
create_query == [t \in TableNames |-> get_create_table_query(Schema(t))]

\* lines 131-135: the dedup column of each table of the catalog
dedup_cols == [t \in TableNames |-> SelectDedupCol(create_query[t].column_names)]

NoFrame == [new_rows |-> <<>>, already_present |-> 0]

\* what the log lines of one run say about one table
NoOutcome == [status |-> "none", err |-> "none", key_failed |-> FALSE,
              inserted |-> 0, present |-> 0, skipped |-> 0,
              attempted |-> <<>>, sample |-> <<>>]

NoResult == [done |-> FALSE, col_defs |-> <<>>, column_names |-> <<>>,
             dedup_col |-> "None"]

NoPrev == [src |-> [t \in TableNames |-> <<>>],
           outcome |-> [t \in TableNames |->
                          [status |-> "none", key_failed |-> FALSE, inserted |-> 0]]]

table == all_tables[i]

\* the program is not running
Idle ==
    /\ src = [t \in TableNames |-> <<>>]
    /\ pg_tables = {}
    /\ dest = [t \in TableNames |-> <<>>]
    /\ conn = NoConn
    /\ pc = "idle"
    /\ i = 0
    /\ frame = NoFrame
    /\ outcome = [t \in TableNames |-> NoOutcome]
    /\ calls = <<>>
    /\ runs = 0
    /\ prev = NoPrev
    /\ faults = 0

progVars == <<src, pg_tables, dest, conn, pc, i, frame, outcome, calls, runs,
              prev, faults>>

Init ==
    /\ Idle
    /\ columns = <<>>
    /\ result = NoResult

\* between two runs the source database gains a row
SourceChange ==
    /\ pc = "idle"
    /\ runs < MaxRuns
    /\ SumLen(src, TableNames) < MaxSrcRows
    /\ \E t \in TableNames : \E r \in RowPool(t) :
           src' = [src EXCEPT ![t] = Append(@, r)]
    /\ UNCHANGED <<pg_tables, dest, conn, pc, i, frame, outcome, calls, runs, prev,
                   faults, columns, result>>

\* lines 197-221: main up to the loop, with a fresh connection
Main ==
    /\ pc = "idle"
    /\ runs < MaxRuns
    /\ runs' = runs + 1
    /\ pc' = "loop"
    /\ i' = 1
    /\ conn' = NoConn
    /\ outcome' = [t \in TableNames |-> NoOutcome]
    /\ calls' = <<>>
    /\ frame' = NoFrame
    /\ UNCHANGED <<src, pg_tables, dest, prev, faults, columns, result>>

\* lines 229-232: the end of main; closing the connection ends its transaction
Close ==
    /\ pc = "loop"
    /\ i > Len(all_tables)
    /\ pc' = "idle"
    /\ i' = 0
    /\ conn' = NoConn
    /\ prev' = [src |-> src,
                 outcome |-> [t \in TableNames |->
                                [status |-> outcome[t].status,
                                 key_failed |-> outcome[t].key_failed,
                                 inserted |-> outcome[t].inserted]]]
    /\ UNCHANGED <<src, pg_tables, dest, frame, outcome, calls, runs, faults,
                   columns, result>>

\* the statement of a sync_table call that a store rejects for a reason of
\* its own: the CREATE TABLE (line 118), the read of the source rows
\* (line 126) or the SELECT of the existing keys (line 142)
Faults == {"none"} \cup (IF faults < MaxFaults THEN {"ddl", "read", "keys"} ELSE {})

Count(b) == IF b THEN 1 ELSE 0

\* sync_table returns with the log saying o about the table
Return(o) ==
    /\ outcome' = [outcome EXCEPT ![table] = o]
    /\ pc' = "loop"
    /\ i' = i + 1
    /\ frame' = NoFrame

\* the handler with the try around the whole loop instead of its body
HandlerOutsideLoop(o) ==
    /\ outcome' = [outcome EXCEPT ![table] = o]
    /\ pc' = "loop"
    /\ i' = Len(all_tables) + 1
    /\ frame' = NoFrame

\* lines 226-227: main's handler logs the error and the loop goes on
Handler(o) == Return(o)

\* lines 149-158: the loop over rows from row k on; row[idx] raises
\* IndexError on a row of fewer than idx values
RECURSIVE ClassifyFrom(_, _, _, _, _)
ClassifyFrom(k, rows, idx, keys, acc) ==
    IF k > Len(rows) THEN acc
    ELSE IF idx = 0
    THEN ClassifyFrom(k + 1, rows, idx, keys,
                      [acc EXCEPT !.new_rows = Append(@, rows[k])])
    ELSE IF Len(rows[k]) < idx THEN [acc EXCEPT !.raised = TRUE]
    ELSE IF PyKey(rows[k][idx]) \in keys
    THEN ClassifyFrom(k + 1, rows, idx, keys,
                      [acc EXCEPT !.already_present = @ + 1])
    ELSE ClassifyFrom(k + 1, rows, idx, keys,
                      [acc EXCEPT !.new_rows = Append(@, rows[k])])

\* line 154: column_names.index(dedup_col), 0 when there is no dedup column
DedupIndex(dedup_col, column_names) ==
    IF dedup_col = "None" THEN 0 ELSE IndexOf(dedup_col, column_names)

ClassifyRows(rows, dedup_col, column_names, keys) ==
    ClassifyFrom(1, rows, DedupIndex(dedup_col, column_names), keys,
                 [raised |-> FALSE, new_rows |-> <<>>, already_present |-> 0])

\* lines 223-225 and 111-158: main calls sync_table for the next table.
\* The call returns at once for a table outside the inclusion set; otherwise
\* it creates the destination table when it is missing (115-122), reads the
\* source rows (124-129), reads the existing keys of the dedup column
\* (131-147) and classifies the rows (149-158); lines 226-227 when the
\* classification raises.
Call ==
    /\ pc = "loop"
    /\ i <= Len(all_tables)
    /\ calls' = Append(calls, table)
    /\ IF table \notin tables_to_import
       THEN /\ Return([NoOutcome EXCEPT !.status = "skipped"])
            /\ UNCHANGED <<pg_tables, dest, conn, faults>>
       ELSE \E fault \in Faults :
              LET column_names == create_query[table].column_names
                  dedup_col == dedup_cols[table]
                  r == ExecuteCreate(conn, table, fault = "ddl")
                  cm == Commit(r.conn, pg_tables, dest)
                  sel == IF dedup_col = "None"
                         THEN [conn |-> cm.conn, err |-> "none", keys |-> {}]
                         ELSE ExecuteSelectKeys(cm.conn, cm.dest, table,
                                  IndexOf(dedup_col, column_names), fault = "keys")
                  c == ClassifyRows(src[table], dedup_col, column_names, sel.keys)
                  o == [NoOutcome EXCEPT !.key_failed = (sel.err # "none")]
              IN \* a rejection is of a statement that reaches its store
                 /\ fault # "none" => conn.txn # "aborted"
                 /\ fault = "keys" => dedup_col # "None"
                 /\ faults' = faults + Count(fault # "none")
                 /\ IF r.err # "none"
                    THEN /\ conn' = r.conn
                         /\ Return([NoOutcome EXCEPT !.status = "ddl_error",
                                                     !.err = r.err])
                         /\ UNCHANGED <<pg_tables, dest>>
                    ELSE /\ pg_tables' = cm.tables
                         /\ dest' = cm.dest
                         /\ IF fault = "read"
                            THEN /\ conn' = cm.conn
                                 /\ Return([NoOutcome EXCEPT
                                               !.status = "read_error",
                                               !.err = "OperationalError"])
                            ELSE /\ conn' = sel.conn
                                 /\ IF c.raised
                                    THEN Handler([o EXCEPT !.status = "unhandled",
                                                           !.err = "IndexError"])
                                    ELSE /\ frame' = [new_rows |-> c.new_rows,
                                                      already_present |-> c.already_present]
                                         /\ outcome' = [outcome EXCEPT ![table] = o]
                                         /\ pc' = "insert"
                                         /\ UNCHANGED i
    /\ UNCHANGED <<src, runs, prev, columns, result>>

\* lines 165-174: rows of at least n values, cut to n values
RECURSIVE ValidRows(_, _)
ValidRows(new_rows, n) ==
    IF new_rows = <<>> THEN <<>>
    ELSE (IF Len(Head(new_rows)) < n THEN <<>> ELSE <<SubSeq(Head(new_rows), 1, n)>>)
             \o ValidRows(Tail(new_rows), n)

\* lines 166-170: skipped_rows
SkippedRows(new_rows, n) == Cardinality({k \in 1..Len(new_rows) : Len(new_rows[k]) < n})

\* lines 160-194
Insert ==
    /\ pc = "insert"
    /\ LET n == Len(create_query[table].column_names)
           valid_rows == ValidRows(frame.new_rows, n)
           skipped_rows == SkippedRows(frame.new_rows, n)
           em == ExecuteMany(conn, table, create_query[table].col_defs, valid_rows)
           cm == Commit(em.conn, pg_tables, dest)
           o == [outcome[table] EXCEPT !.status = "ok",
                                       !.present = frame.already_present,
                                       !.skipped = skipped_rows]
       IN IF valid_rows = <<>>
          THEN /\ Return(o)
               /\ UNCHANGED <<conn, pg_tables, dest>>
          ELSE IF em.err = "none"
          THEN /\ conn' = cm.conn
               /\ pg_tables' = cm.tables
               /\ dest' = cm.dest
               /\ Return([o EXCEPT !.inserted = Len(valid_rows),
                                   !.attempted = valid_rows])
          ELSE /\ conn' = Rollback(em.conn)
               /\ Return([o EXCEPT !.status = "insert_error", !.err = em.err,
                                   !.attempted = valid_rows,
                                   !.sample = valid_rows[1]])
               /\ UNCHANGED <<pg_tables, dest>>
    /\ UNCHANGED <<src, calls, runs, prev, faults, columns, result>>

\* the steps of one run once main has started
Step == Call \/ Close \/ Insert

Next ==
    \/ SourceChange
    \/ Main
    \/ Call
    \/ Close
    \/ Insert

Spec == Init /\ [][Next]_vars

\* the source database before the first run
FirstSource == runs = 0 /\ SourceChange

\* the first run of main
FirstMain == runs = 0 /\ Main

NextFirst ==
    \/ FirstSource
    \/ FirstMain
    \/ Call
    \/ Close
    \/ Insert

\* one run of main over any source database of the model; the program is
\* sequential code, so a started run keeps taking its next step
FairSpec == Init /\ [][NextFirst]_vars /\ WF_vars(Step)

----------------------------------------------------------------------------
(* The pure functions on bounded inputs.                                   *)

TypePool ==
    { None, <<>>, INTEGER, REAL, TEXT, NUMERIC,
      <<"i","n","t">>, <<"I","n","t","e","g","e","r">>, <<"r","e","a","l">>,
      <<"B","L","O","B">>, <<"b","l","o","b">>,
      <<"V","A","R","C","H","A","R","(","2","0",")">>,
      <<"B","I","G","I","N","T">>, <<"I","N">>, <<"R","E","A">> }

MapNamePool == {"row_id", "value", "time"}

KeyNamePool == {"row_id", "local_date_time", "time", "value", "TIME"}

Distinct(names) == \A a, b \in 1..Len(names) : a # b => names[a] # names[b]

\* sequences of at most n distinct names of S
NameSeqs(S, n) ==
    UNION {{names \in [1..len -> S] : Distinct(names)} : len \in 0..n}

InitMap ==
    /\ Idle
    /\ \E names \in NameSeqs(MapNamePool, MaxMapCols) :
         \E types \in [1..Len(names) -> TypePool] :
            columns = [k \in 1..Len(names) |-> Col(names[k], types[k])]
    /\ result = NoResult

\* lines 83-107 on the columns
MapColumns ==
    /\ ~result.done
    /\ LET q == get_create_table_query(columns)
       IN result' = [done |-> TRUE, col_defs |-> q.col_defs,
                     column_names |-> q.column_names, dedup_col |-> "None"]
    /\ UNCHANGED <<progVars, columns>>

SpecMap == InitMap /\ [][MapColumns]_vars

InitKey ==
    /\ Idle
    /\ \E names \in NameSeqs(KeyNamePool, MaxKeyCols) :
          columns = [k \in 1..Len(names) |-> Col(names[k], <<>>)]
    /\ result = NoResult

\* lines 131-135 on the column names
SelectKey ==
    /\ ~result.done
    /\ LET column_names == [k \in 1..Len(columns) |-> columns[k].name]
       IN result' = [done |-> TRUE, col_defs |-> <<>>,
                     column_names |-> column_names,
                     dedup_col |-> SelectDedupCol(column_names)]
    /\ UNCHANGED <<progVars, columns>>

SpecKey == InitKey /\ [][SelectKey]_vars

----------------------------------------------------------------------------
(* Properties.                                                             *)

\* main has gone through the whole catalog and is about to close
RunEnd == pc = "loop" /\ i > Len(all_tables)

NumCols(t) == Len(Schema(t))

ColumnNames(t) == {Schema(t)[k].name : k \in 1..Len(Schema(t))}

\* the synchronized tables with and without a dedup column
KeyTables == {t \in TableNames \cap tables_to_import :
                 ColumnNames(t) \cap {"row_id", "local_date_time", "time"} # {}}

NoKeyTables == (TableNames \cap tables_to_import) \ KeyTables

IsPrefix(s, t) == Len(s) <= Len(t) /\ SubSeq(t, 1, Len(s)) = s

\* the mapping rule as the specification states it, on an uppercased type
DeclaredUpper(type) == IF type = None THEN <<>> ELSE StrUpper(type)

HasPrefix(u, n, prefix) == Len(u) >= n /\ SubSeq(u, 1, n) = prefix

DestinationType(u) ==
    CASE u = <<>> -> "TEXT"
      [] HasPrefix(u, 3, <<"I","N","T">>) -> "BIGINT"
      [] HasPrefix(u, 4, <<"R","E","A","L">>) -> "DOUBLE PRECISION"
      [] HasPrefix(u, 4, <<"B","L","O","B">>) -> "BYTEA"
      [] OTHER -> "TEXT"

\* C9: get_create_table_query yields one mapped column per source column,
\* same names in the same order, and the destination type depends on the
\* uppercased declared type alone: empty -> TEXT, prefix INT -> BIGINT,
\* prefix REAL -> DOUBLE, prefix BLOB -> BINARY, anything else -> TEXT.
C9_SchemaMapping ==
    result.done =>
        /\ Len(result.col_defs) = Len(columns)
        /\ Len(result.column_names) = Len(columns)
        /\ \A k \in 1..Len(columns) :
              /\ result.col_defs[k].name = columns[k].name
              /\ result.column_names[k] = columns[k].name
              /\ result.col_defs[k].mapped = DestinationType(DeclaredUpper(columns[k].type))
        /\ \A k \in 1..Len(columns) :
              /\ columns[k].type = INTEGER => result.col_defs[k].mapped = "BIGINT"
              /\ columns[k].type = REAL => result.col_defs[k].mapped = "DOUBLE PRECISION"
              /\ columns[k].type = <<"B","L","O","B">> => result.col_defs[k].mapped = "BYTEA"
              /\ columns[k].type = <<>> => result.col_defs[k].mapped = "TEXT"
              /\ columns[k].type = NUMERIC => result.col_defs[k].mapped = "TEXT"
              /\ columns[k].type = <<"V","A","R","C","H","A","R","(","2","0",")">>
                    => result.col_defs[k].mapped = "TEXT"

C9_Witness ==
    /\ result.done
    /\ Len(columns) = 2
    /\ columns[1].type = <<"I","n","t","e","g","e","r">>
    /\ result.col_defs[1].mapped = "BIGINT"
    /\ columns[2].type = <<"V","A","R","C","H","A","R","(","2","0",")">>
    /\ result.col_defs[2].mapped = "TEXT"

\* C7: the dedup column is the first of row_id, local_date_time, time that is
\* among the column names, whatever the order of the columns, and there is
\* no key exactly when none of the three is a column.
C7_DedupKeySelection ==
    result.done =>
        LET names == {columns[k].name : k \in 1..Len(columns)} IN
        /\ "row_id" \in names => result.dedup_col = "row_id"
        /\ "row_id" \notin names /\ "local_date_time" \in names
              => result.dedup_col = "local_date_time"
        /\ "row_id" \notin names /\ "local_date_time" \notin names /\ "time" \in names
              => result.dedup_col = "time"
        /\ result.dedup_col = "None"
              <=> names \cap {"row_id", "local_date_time", "time"} = {}

C7_Witness ==
    /\ result.done
    /\ Len(columns) = 3
    /\ columns[1].name = "time"
    /\ columns[2].name = "value"
    /\ columns[3].name = "row_id"
    /\ result.dedup_col = "row_id"

\* the valid rows of a table's source, as lines 165-174 cut them
SourceValid(t) == ValidRows(src[t], NumCols(t))

SourceShort(t) == {k \in 1..Len(src[t]) : Len(src[t][k]) < NumCols(t)}

\* sync_table reached the end of its body (line 194) for the table
Reported(t) == outcome[t].status \in {"ok", "insert_error"}

\* C4: a failed bulk insert is rolled back: the committed rows are those
\* committed before the insert was attempted, no statement of the failed
\* batch stays pending on the connection, and the log names one sample row.
C4_InsertAllOrNothing ==
    [][ (pc = "insert" /\ outcome'[table].status = "insert_error") =>
            /\ dest' = dest
            /\ pg_tables' = pg_tables
            /\ conn'.txn = "idle"
            /\ conn'.pending = <<>>
            /\ \E k \in 1..Len(src[table]) :
                  /\ Len(src[table][k]) >= NumCols(table)
                  /\ outcome'[table].sample = SubSeq(src[table][k], 1, NumCols(table))
      ]_vars

C4_Witness ==
    \E t \in TableNames :
        /\ outcome[t].status = "insert_error"
        /\ outcome[t].err = "ValueError"
        /\ Len(outcome[t].attempted) = 2
        /\ ~HasNul(outcome[t].attempted[1])
        /\ HasNul(outcome[t].attempted[2])
        /\ outcome[t].sample = outcome[t].attempted[1]
        /\ dest[t] = <<>>
        /\ conn = NoConn

\* C10: the destination only accumulates: every step leaves each committed
\* row of each destination table in place and unchanged, no destination
\* table disappears, and no step of a run changes the source.
C10_DestinationAccumulates ==
    [][ /\ \A t \in TableNames : IsPrefix(dest[t], dest'[t])
        /\ pg_tables \subseteq pg_tables'
        /\ (pc # "idle" \/ pc' # "idle") => src' = src
      ]_vars

C10_Witness ==
    /\ runs = 2
    /\ RunEnd
    /\ \E t \in TableNames :
          /\ prev.outcome[t].inserted = 1
          /\ outcome[t].status = "insert_error"
          /\ Len(dest[t]) = 1
    /\ \E t \in TableNames : prev.outcome[t].status = "read_error"

\* C8: in every run main calls sync_table once per table of the catalog, in
\* catalog order, a table outside the inclusion set is skipped without
\* touching the destination, and a started run reaches its end whatever the
\* tables' syncs raise.
C8_RunToCompletion ==
    /\ [](IsPrefix(calls, all_tables))
    /\ [](RunEnd => calls = all_tables)
    /\ [][ (pc = "loop" /\ i <= Len(all_tables) /\ table \notin tables_to_import) =>
              /\ dest' = dest
              /\ pg_tables' = pg_tables
              /\ conn' = conn
              /\ outcome'[table].status = "skipped"
         ]_vars
    /\ ((pc # "idle") ~> (pc = "idle" /\ calls = all_tables))

C8_Witness ==
    /\ pc = "idle"
    /\ runs = 1
    /\ calls = all_tables
    /\ outcome["android_metadata"].status = "skipped"
    /\ outcome["steps_record_table"].status = "read_error"
    /\ outcome["weight_record_table"].status = "unhandled"
    /\ outcome["sleep_session_record_table"].status = "insert_error"

\* C6 as stated: a table without dedup column inserts all its n valid source
\* rows and reports 0 already present in every run that syncs it.
C6_Original ==
    pc # "idle" =>
        \A t \in NoKeyTables :
            Reported(t) =>
                /\ outcome[t].inserted = Len(SourceValid(t))
                /\ outcome[t].present = 0

\* C6: in a table without dedup column every source row is new in every
\* run: no key is queried, 0 rows are reported already present, the short
\* rows are skipped and all n valid rows go to the bulk insert, which
\* inserts n rows when it succeeds and none when it fails.
C6_NoDedupKey ==
    pc # "idle" =>
        \A t \in NoKeyTables :
            Reported(t) =>
                /\ ~outcome[t].key_failed
                /\ outcome[t].present = 0
                /\ outcome[t].skipped = Cardinality(SourceShort(t))
                /\ outcome[t].attempted = SourceValid(t)
                /\ outcome[t].status = "ok" =>
                      /\ outcome[t].inserted = Len(SourceValid(t))
                      /\ Len(dest[t]) >= Len(SourceValid(t))
                /\ outcome[t].status = "insert_error" => outcome[t].inserted = 0

C6_Witness ==
    /\ RunEnd
    /\ runs = 2
    /\ \E t \in NoKeyTables :
          /\ Len(src[t]) = 1
          /\ prev.src = src
          /\ prev.outcome[t].inserted = 1
          /\ outcome[t].status = "ok"
          /\ outcome[t].inserted = 1
          /\ outcome[t].present = 0
          /\ Len(dest[t]) = 2

\* a table's valid source rows all fit the destination columns
Insertable(t) ==
    \A k \in 1..Len(SourceValid(t)) :
        /\ ~HasNul(SourceValid(t)[k])
        /\ ~InSeq(CastError, CastRow(SourceValid(t)[k],
                                     get_create_table_query(Schema(t)).col_defs))

\* C1: of two runs in a row over an unchanged source, the second inserts no
\* row into a table with a dedup column and reports as already present the
\* number of rows the first run inserted (stated for the tables whose rows
\* are all of full length and whose syncs ended without error in both runs).
C1_Idempotence ==
    (RunEnd /\ runs >= 2 /\ prev.src = src) =>
        \A t \in KeyTables :
            ( /\ SourceShort(t) = {}
              /\ prev.outcome[t].status = "ok" /\ ~prev.outcome[t].key_failed
              /\ outcome[t].status = "ok" /\ ~outcome[t].key_failed )
            => /\ outcome[t].inserted = 0
               /\ outcome[t].present = prev.outcome[t].inserted

\* C2: when the sync of one table ends with a DDL, read or insert error,
\* no other table of the run is marked errored on its account: no other
\* table has its first statement refused because of a transaction that an
\* earlier table left aborted.
C2_FaultIsolation ==
    \A b, t \in TableNames :
        (b # t /\ outcome[b].status \in {"ddl_error", "read_error", "insert_error"})
        => ~( outcome[t].status = "ddl_error"
              /\ outcome[t].err = "InFailedSqlTransaction" )

\* C3: a source row of fewer than N values never aborts the sync of its
\* table, with or without a dedup column: no error leaves sync_table, the
\* row is counted as skipped and only rows of N values reach the insert.
C3_MalformedRowIsolation ==
    pc # "idle" =>
        \A t \in TableNames :
            /\ outcome[t].status # "unhandled"
            /\ Reported(t) =>
                  \A k \in 1..Len(outcome[t].attempted) :
                      Len(outcome[t].attempted[k]) = NumCols(t)

\* C5: when the query of the existing keys fails, every source row counts
\* as new and the table's valid rows are still inserted: the sync does not
\* end as a failed table on account of the failed query.
C5_KeyQueryDegrades ==
    pc # "idle" =>
        \A t \in KeyTables :
            (outcome[t].key_failed /\ Reported(t) /\ Insertable(t)) =>
                /\ outcome[t].present = 0
                /\ outcome[t].status = "ok"
                /\ outcome[t].inserted = Len(SourceValid(t))

====
